---- MODULE Spec2Model ----
(***************************************************************************)
(* SavingsVault (contract/contracts/SavingsVault.sol) together with the    *)
(* wINJ asset contract it calls through the IERC20 interface.              *)
(*                                                                         *)
(* A call of deposit or withdraw runs its statements in source order in a  *)
(* call frame.  Nothing outside can observe the state between two local    *)
(* statements, so a frame runs without interruption up to its external     *)
(* call (wINJ.transferFrom, wINJ.transfer), which hands control to the     *)
(* asset contract; while control is there any account may call back into   *)
(* the vault (a reentrant call).  A frame that fails restores the state it *)
(* was entered with (EVM revert).                                          *)
(*                                                                         *)
(* The client (the React component App in its final form) is modelled by   *)
(* its useState variables and its event handlers.  A handler runs from the *)
(* event to its first await in one step; what it awaits (the wallet, a     *)
(* read of the chain) answers in a later step, and a transaction the       *)
(* wallet has sent enters a block later still.  Spec and SpecReentrant     *)
(* are the contract on its own; SpecVault, SpecTransfer, SpecForms and     *)
(* SpecInTurn are the client with the chain behind it, each with a part    *)
(* of the handlers or of the schedules so that the states can be           *)
(* enumerated.  SpecApp is the component as frontend/src/App.tsx has it,   *)
(* whose handleTransfer awaits the confirmation of what it has sent.       *)
(* SpecTransferAnswered adds weak fairness of the answers handleTransfer   *)
(* awaits, for what must happen in the end.                                *)
(***************************************************************************)
EXTENDS Integers, Sequences, FiniteSets, Bags, TLC

\* ---------------------------------------------------------------- bounds
Accounts == {"a1", "a2"}
Vault == "vault"
Holders == Accounts \cup {Vault}

MaxAmount == 2
InitialTokens == 2
MaxReentries == 1
UintBits == 4

\* type(uint256).max at the modelled width
MaxUint256 == 2^UintBits - 1

Amounts == 0..MaxAmount
\* approval for the amount of one deposit instead of the largest uint256
ApprovalAmount_Exact == MaxAmount

\* approval for a large finite amount, below the largest uint256
ApprovalAmount_Finite == MaxUint256 - 1

\* the amount handleApprove asks approval for: MaxUint256
ApprovalAmount == MaxUint256

\* the allowances an account may set: none, a finite one, the client's
ApproveAmounts == {0, 1, ApprovalAmount}
Functions == {"deposit", "withdraw"}

VARIABLES
    balances,      \* SavingsVault.balances : account -> uint256
    tok,           \* wINJ balanceOf        : holder  -> uint256
    allowance,     \* wINJ allowance(owner, vault)
    netDeposited,  \* asset pulled from minus asset pushed to each account by the vault
    log,           \* events emitted by the transaction in progress
    stack,         \* call frames of the transaction in progress, innermost last
    last,          \* outcome of the call that completed most recently
    prev           \* outcome of the transaction completed before the latest one

\* the client (App.tsx): React state of the component, and what is around it
VARIABLES
    isConnected,        \* useState(false)
    walletAddress,      \* useState("")
    balance,            \* useState(0): native INJ balance as last read
    winjBalance,        \* useState(0): wINJ wallet balance as last read
    vaultBalance,       \* useState(0): myBalance() as last read
    isTransferring,     \* useState(false)
    showApprovalModal,  \* useState(false)
    isApproving,        \* useState(false)
    isApproved,         \* useState(false)
    txStatus,           \* useState({type: null, message: ""})
    state,              \* useState({..., address: "", amount: ""})
    vaultAmount,        \* useState("")
    activeTab,          \* useState("INJ")
    handlers,           \* calls of the async handlers that are suspended at an await
    pending,            \* transactions sent to the chain and not yet in a block
    native,             \* native INJ balance of each account on the chain
    shown               \* what the latest step of the client did, as the user saw it

contract == <<balances, tok, allowance, netDeposited, log, stack, last, prev>>

client == <<isConnected, walletAddress, balance, winjBalance, vaultBalance,
            isTransferring, showApprovalModal, isApproving, isApproved, txStatus,
            state, vaultAmount, activeTab, handlers, pending, native, shown>>

vars == <<contract, client>>

\* --------------------------------------------------------------- helpers
Chain == [balances |-> balances, tok |-> tok, allowance |-> allowance,
          netDeposited |-> netDeposited, log |-> log]

View(c) == [balances |-> c.balances, tok |-> c.tok, allowance |-> c.allowance]

Top == stack[Len(stack)]

Front(s) == SubSeq(s, 1, Len(s) - 1)

SetTop(f) == [stack EXCEPT ![Len(stack)] = f]

RECURSIVE SumOver(_, _)
SumOver(f, S) ==
    IF S = {} THEN 0
    ELSE LET x == CHOOSE y \in S : TRUE IN f[x] + SumOver(f, S \ {x})

NoResult ==
    [fn |-> "none", sender |-> "none", amount |-> 0, ok |-> FALSE, err |-> "",
     failedAt |-> "",
     pc |-> 0,
     pre |-> [balances |-> [a \in Accounts |-> 0], tok |-> [h \in Holders |-> 0],
             allowance |-> [a \in Accounts |-> 0]],
     emitted |-> <<>>, nested |-> 0, callers |-> {}, fault |-> FALSE,
     extCalls |-> 0, depth |-> 0, returned |-> 0]

\* ------------------------------------------------- SavingsVault, by line
\* deposit with the amount check after the pull
deposit_PullFirst == <<"transferFrom", "require_amount", "credit", "emit">>

\* deposit crediting the balance before the pull has been made
deposit_CreditFirst == <<"require_amount", "credit", "transferFrom", "emit">>

\* function deposit(uint256 amount), statements in source order
deposit == <<"require_amount", "transferFrom", "credit", "emit">>

\* withdraw pushing the asset before the balance is debited
withdraw_PushFirst == <<"require_amount", "require_balance", "transfer", "debit", "emit">>

\* function withdraw(uint256 amount), statements in source order
withdraw == <<"require_amount", "require_balance", "debit", "transfer", "emit">>

Program(fn) == IF fn = "deposit" THEN deposit ELSE withdraw

\* require(amount > 0, "amount=0")
require_amount(amount) == amount > 0

\* the balance check off by one, letting amount = balance + 1 through
require_balance_Lax(bal, amount) == bal + 1 >= amount

\* the balance check off by one, refusing amount = balance
require_balance_Strict(bal, amount) == bal > amount

\* require(balances[msg.sender] >= amount, "insufficient balance")
require_balance(bal, amount) == bal >= amount

\* balances[msg.sender] = amount
credit_Assign(bal, amount) == amount

\* balances[msg.sender] += amount   (checked uint256 arithmetic)
credit(bal, amount) == bal + amount

\* the debit left out
debit_None(bal, amount) == bal

\* balances[msg.sender] -= amount   (checked uint256 arithmetic)
debit(bal, amount) == bal - amount

\* the value returned by the asset call ignored
require_returned_Ignored(ret) == TRUE

\* require(wINJ.transferFrom(...), "transferFrom failed") /
\* require(wINJ.transfer(...), "transfer failed"): passes iff the call returned true
require_returned(ret) == ret

RequireMessage(stmt) ==
    IF stmt = "require_amount" THEN "amount=0"
    ELSE IF stmt = "require_balance" THEN "insufficient balance"
    ELSE IF stmt = "transferFrom" THEN "transferFrom failed"
    ELSE "transfer failed"

\* Deposited emitted by withdraw as well
EventOf_AlwaysDeposited(fn, sender, amount) ==
    [name |-> "Deposited", user |-> sender, amount |-> amount]

\* event Deposited(user, amount) / event Withdrawn(user, amount)
EventOf(fn, sender, amount) ==
    [name |-> IF fn = "deposit" THEN "Deposited" ELSE "Withdrawn",
     user |-> sender, amount |-> amount]

\* tx.origin used in place of msg.sender
msgSender_TxOrigin(f) == f.origin

\* msg.sender of a call: the account (or contract) that made it
msgSender(f) == f.sender

\* myBalance returning what the caller holds of the asset, not what the vault tracks
myBalance_Wallet(sender) == tok[sender]

\* function myBalance() external view
myBalance(sender) == balances[sender]

\* ------------------------------------------------------- the wINJ asset
\* allowance left after a pull of amount: an unlimited allowance is not consumed
SpendAllowance(current, amount) ==
    IF current = MaxUint256 THEN current ELSE current - amount

\* transferFrom(from, vault, amount) by the vault can go through
CanPull(from, amount) == allowance[from] >= amount /\ tok[from] >= amount

\* transfer(to, amount) by the vault can go through
CanPush(amount) == tok[Vault] >= amount

\* ------------------------------------------------------------ call frames
NewFrame(fn, sender, origin, amount, c) ==
    [fn |-> fn, sender |-> sender, origin |-> origin, amount |-> amount, pc |-> 1,
     phase |-> "run", ret |-> FALSE, snap |-> c, nested |-> 0,
     callers |-> {sender}, fault |-> FALSE, extCalls |-> 0]

Stmt(f) == Program(f.fn)[f.pc]

\* the reentrant calls made so far in the transaction in progress
RECURSIVE Reentries(_)
Reentries(s) == IF s = <<>> THEN 0 ELSE s[Len(s)].nested + Reentries(Front(s))

InAsset == stack # <<>> /\ Top.phase \in {"called", "moved"}

Outcome(status, err, f, c) == [status |-> status, err |-> err, frame |-> f, chain |-> c]

\* run the statements of frame f on chain state c, from f.pc on, until the
\* function ends ("done"), a statement fails ("fail") or control leaves for
\* the asset contract ("call")
RECURSIVE Exec(_, _)
Exec(f, c) ==
    IF f.pc > Len(Program(f.fn)) THEN Outcome("done", "", f, c)
    ELSE
    LET s == Stmt(f)
        step == [f EXCEPT !.pc = @ + 1]
        who == msgSender(f)
        bal == c.balances[who]
    IN  CASE s = "require_amount" ->
               IF require_amount(f.amount) THEN Exec(step, c)
               ELSE Outcome("fail", RequireMessage(s), f, c)
          [] s = "require_balance" ->
               IF require_balance(bal, f.amount) THEN Exec(step, c)
               ELSE Outcome("fail", RequireMessage(s), f, c)
          [] s = "credit" ->
               IF credit(bal, f.amount) \in 0..MaxUint256
               THEN Exec(step, [c EXCEPT !.balances[who] = credit(bal, f.amount)])
               ELSE Outcome("fail", "panic", f, c)
          [] s = "debit" ->
               IF debit(bal, f.amount) \in 0..MaxUint256
               THEN Exec(step, [c EXCEPT !.balances[who] = debit(bal, f.amount)])
               ELSE Outcome("fail", "panic", f, c)
          [] s = "emit" ->
               Exec(step, [c EXCEPT !.log = Append(@, EventOf(f.fn, who, f.amount))])
          [] OTHER ->
               Outcome("call", "", [f EXCEPT !.phase = "called", !.extCalls = @ + 1], c)

ResultOf(f, ok, err, logNow, depth) ==
    [fn |-> f.fn, sender |-> f.sender, amount |-> f.amount, ok |-> ok,
     err |-> err, failedAt |-> IF ok THEN "" ELSE Stmt(f),
     pc |-> IF ok THEN 0 ELSE f.pc,
     pre |-> View(f.snap),
     emitted |-> SubSeq(logNow, Len(f.snap.log) + 1, Len(logNow)),
     nested |-> f.nested, callers |-> f.callers, fault |-> f.fault,
     extCalls |-> f.extCalls, depth |-> depth, returned |-> 0]

\* the state a failed frame leaves behind: the one it was entered with
Reverted(f) == f.snap

SetChain(c) ==
    /\ UNCHANGED client
    /\ balances' = c.balances
    /\ tok' = c.tok
    /\ allowance' = c.allowance
    /\ netDeposited' = c.netDeposited
    /\ log' = c.log

\* the frame f, called from the frames below, fails with err: its effects
\* are undone and its caller resumes
Fail(f, err, below) ==
    /\ SetChain(Reverted(f))
    /\ stack' = below
    /\ last' = ResultOf(f, FALSE, err, Reverted(f).log, Len(below) + 1)
    /\ UNCHANGED prev

\* the frame f, called from the frames below, has run to outcome o
Settle(o, below) ==
    CASE o.status = "call" ->
           /\ SetChain(o.chain)
           /\ stack' = Append(below, o.frame)
           /\ last' = NoResult
           /\ UNCHANGED prev
      [] o.status = "done" ->
           /\ SetChain(o.chain)
           /\ stack' = IF below = <<>> THEN below
                       ELSE [below EXCEPT ![Len(below)].callers = @ \cup o.frame.callers]
           /\ last' = ResultOf([o.frame EXCEPT !.pc = Len(Program(o.frame.fn))],
                               TRUE, "", o.chain.log, Len(below) + 1)
           /\ UNCHANGED prev
      [] OTHER -> Fail(o.frame, o.err, below)

\* a step of the asset contract inside a call: an inner call that has just
\* completed is no longer the latest thing that happened
Continue(unchanged) ==
    /\ UNCHANGED client
    /\ last' = NoResult
    /\ UNCHANGED prev
    /\ UNCHANGED unchanged

\* withdraw(amount) by sender directly follows this sender's successful deposit(amount)
Follows(r, sender, fn, amount) ==
    /\ r.ok
    /\ r.fn = "deposit"
    /\ fn = "withdraw"
    /\ r.sender = sender
    /\ r.amount = amount

\* no outcome of a client step to show
Nothing == [kind |-> "none", via |-> "", message |-> "", sent |-> FALSE, amount |-> 0,
            allowance |-> 0]

\* the component as first rendered, and a chain with nothing waiting
ClientInit ==
    /\ isConnected = FALSE
    /\ walletAddress = ""
    /\ balance = 0
    /\ winjBalance = 0
    /\ vaultBalance = 0
    /\ isTransferring = FALSE
    /\ showApprovalModal = FALSE
    /\ isApproving = FALSE
    /\ isApproved = FALSE
    /\ txStatus = [type |-> "null", message |-> ""]
    /\ state = [address |-> "", amount |-> ""]
    /\ vaultAmount = ""
    /\ activeTab = "INJ"
    /\ handlers = <<>>
    /\ pending = <<>>
    /\ native = [a \in Accounts |-> InitialTokens]
    /\ shown = Nothing

Init ==
    /\ ClientInit
    /\ balances = [a \in Accounts |-> 0]
    /\ tok = [h \in Holders |-> IF h = Vault THEN 0 ELSE InitialTokens]
    /\ allowance = [a \in Accounts |-> 0]
    /\ netDeposited = [a \in Accounts |-> 0]
    /\ log = <<>>
    /\ stack = <<>>
    /\ last = NoResult
    /\ prev = NoResult

\* an account sends a transaction calling deposit(amount) or withdraw(amount)
Call(sender, fn, amount) ==
    /\ stack = <<>>
    /\ prev' = IF Follows(last, sender, fn, amount) THEN last ELSE NoResult
    /\ LET c == [Chain EXCEPT !.log = <<>>]
           o == Exec(NewFrame(fn, sender, sender, amount, c), c)
       IN  CASE o.status = "call" ->
                  /\ SetChain(o.chain)
                  /\ stack' = <<o.frame>>
                  /\ last' = NoResult
             [] o.status = "done" ->
                  /\ SetChain(o.chain)
                  /\ stack' = <<>>
                  /\ last' = ResultOf([o.frame EXCEPT !.pc = Len(Program(o.frame.fn))],
                                      TRUE, "", o.chain.log, 1)
             [] OTHER ->
                  /\ SetChain(Reverted(o.frame))
                  /\ stack' = <<>>
                  /\ last' = ResultOf(o.frame, FALSE, o.err, Reverted(o.frame).log, 1)

\* while the asset contract has control, an account calls back into the vault
Reenter(sender, fn, amount) ==
    /\ InAsset
    /\ Reentries(stack) < MaxReentries
    /\ Settle(Exec(NewFrame(fn, sender, Top.origin, amount, Chain), Chain),
              SetTop([Top EXCEPT !.nested = @ + 1]))

\* the asset contract moves the amount and will return true
AssetMove ==
    /\ stack # <<>>
    /\ Top.phase = "called"
    /\ LET f == Top IN
       IF Stmt(f) = "transferFrom"
       THEN /\ CanPull(f.sender, f.amount)
            /\ tok' = [tok EXCEPT ![f.sender] = @ - f.amount, ![Vault] = @ + f.amount]
            /\ allowance' = [allowance EXCEPT
                               ![f.sender] = SpendAllowance(@, f.amount)]
            /\ netDeposited' = [netDeposited EXCEPT ![f.sender] = @ + f.amount]
       ELSE /\ CanPush(f.amount)
            /\ tok' = [tok EXCEPT ![Vault] = @ - f.amount, ![f.sender] = @ + f.amount]
            /\ netDeposited' = [netDeposited EXCEPT ![f.sender] = @ - f.amount]
            /\ UNCHANGED allowance
    /\ stack' = SetTop([Top EXCEPT !.phase = "moved", !.ret = TRUE])
    /\ Continue(<<balances, log>>)

\* the asset contract moves nothing and will return false
AssetRefuse ==
    /\ stack # <<>>
    /\ Top.phase = "called"
    /\ stack' = SetTop([Top EXCEPT !.phase = "moved", !.ret = FALSE, !.fault = TRUE])
    /\ Continue(<<balances, tok, allowance, netDeposited, log>>)

\* the asset contract reverts for want of balance or allowance
\* (ERC20InsufficientBalance, ERC20InsufficientAllowance): the revert
\* passes through the vault to the vault's caller
AssetInsufficient ==
    /\ stack # <<>>
    /\ Top.phase = "called"
    /\ IF Stmt(Top) = "transferFrom"
       THEN ~CanPull(Top.sender, Top.amount)
       ELSE ~CanPush(Top.amount)
    /\ Fail(Top, "asset revert", Front(stack))

\* the asset contract, or a callback it made, reverts for a reason of its own
AssetRevert ==
    /\ InAsset
    /\ Fail([Top EXCEPT !.fault = TRUE], "asset revert", Front(stack))

\* the asset contract returns to the require(...) around the call, and the
\* function runs on
ExternalReturn ==
    /\ stack # <<>>
    /\ Top.phase = "moved"
    /\ IF require_returned(Top.ret)
       THEN Settle(Exec([Top EXCEPT !.phase = "run", !.pc = @ + 1], Chain), Front(stack))
       ELSE Fail(Top, RequireMessage(Stmt(Top)), Front(stack))

\* an account calls myBalance(): a view function with no require and no
\* write, so the call returns and the state is the one it was entered with
MyBalance(sender) ==
    /\ stack = <<>>
    /\ last' = [NoResult EXCEPT !.fn = "myBalance", !.sender = sender, !.ok = TRUE,
                                !.pre = View(Chain), !.depth = 1,
                                !.returned = myBalance(sender)]
    /\ prev' = NoResult
    /\ UNCHANGED <<balances, tok, allowance, netDeposited, log, stack>>
    /\ UNCHANGED client

\* an asset operation sent as a transaction of its own, outside the vault
Outside ==
    /\ stack = <<>>
    /\ UNCHANGED client
    /\ last' = NoResult
    /\ prev' = NoResult
    /\ UNCHANGED stack

\* wINJ.approve(vault, amount) by owner
Approve(owner, amount) ==
    /\ Outside
    /\ allowance' = [allowance EXCEPT ![owner] = amount]
    /\ UNCHANGED <<balances, tok, netDeposited, log>>

\* wINJ.transfer(to, amount) by from; sent to the vault it is a donation
\* the vault does not track
AssetTransfer(from, to, amount) ==
    /\ Outside
    /\ from # to
    /\ amount > 0
    /\ tok[from] >= amount
    /\ tok' = [tok EXCEPT ![from] = @ - amount, ![to] = @ + amount]
    /\ UNCHANGED <<balances, allowance, netDeposited, log>>

\* transactions one after another; the asset contract calls nobody back
Next ==
    \/ \E s \in Accounts, fn \in Functions, a \in Amounts : Call(s, fn, a)
    \/ \E s \in Accounts : MyBalance(s)
    \/ AssetMove
    \/ AssetRefuse
    \/ AssetInsufficient
    \/ AssetRevert
    \/ ExternalReturn
    \/ \E o \in Accounts, n \in ApproveAmounts : Approve(o, n)
    \/ \E f \in Accounts, n \in 1..MaxAmount : AssetTransfer(f, Vault, n)

Spec == Init /\ [][Next]_vars

\* the asset contract may call accounts back while it has control (transfer
\* hooks), and they may call the vault from there
NextReentrant ==
    \/ Next
    \/ \E s \in Accounts, fn \in Functions, a \in Amounts : Reenter(s, fn, a)

SpecReentrant == Init /\ [][NextReentrant]_vars

\* ------------------------------------------------------------ the client
\* App.tsx in its final form.  An event handler runs from the event to its
\* first await without interruption and React renders before the next event,
\* so a click meets the controls as the latest state has them.  An async
\* handler suspended at an await is an entry of handlers; the wallet and the
\* chain answer in their own time.
User == "a1"

Recipient == "a2"

MaxHandlers == 2
MaxPending == 2

\* what can be typed into an amount field
Numeral == ("0" :> 0) @@ ("1" :> 1)

Typed == {"", "abc"} \cup DOMAIN Numeral

\* parseFloat(text): a number or NaN
parseFloat(text) ==
    IF text \in DOMAIN Numeral THEN [nan |-> FALSE, value |-> Numeral[text]]
    ELSE [nan |-> TRUE, value |-> 0]

isNaN(x) == x.nan

\* parseEther(text), in whole units of the asset
parseEther(text) == Numeral[text]

\* a suspended call of a handler: where it waits and what its closure holds
Suspended(handler, at, tab, to, text) ==
    [handler |-> handler, at |-> at, tab |-> tab, to |-> to, text |-> text]

Resume(h, at) == (handlers (-) SetToBag({h})) (+) SetToBag({[h EXCEPT !.at = at]})

Finish(h) == handlers (-) SetToBag({h})

Start(h) == handlers (+) SetToBag({h})

Waiting(handler, at) == {h \in BagToSet(handlers) : h.handler = handler /\ h.at = at}

\* a transaction as sent by the wallet
Tx(kind, to, amount) == [kind |-> kind, to |-> to, amount |-> amount]

\* window.alert(message) by a handler
Alert(via, message) == [Nothing EXCEPT !.kind = "alert", !.via = via, !.message = message]

\* a handler has had the wallet send a transaction
Sent(via, amount) ==
    [Nothing EXCEPT !.kind = "sent", !.via = via, !.sent = TRUE, !.amount = amount,
                    !.allowance = allowance[User]]

\* the controls disabled only while no wallet is connected
buttonsDisabled_ConnectedOnly == ~isConnected

\* const buttonsDisabled = !isConnected || !isApproved
buttonsDisabled == ~isConnected \/ ~isApproved

\* the Approve button of the modal: disabled={isApproving}, always enabled here
ApproveDisabled_Never == FALSE

\* the Approve button of the modal: disabled={isApproving}
ApproveDisabled == isApproving

\* await winjContract.balanceOf(address)
getWINJBalance == tok[User]

\* await vaultContract.myBalance(), called by the wallet's account
getVaultBalance == myBalance(User)

\* await winjContract.allowance(address, VAULT_CONTRACT_ADDRESS)
checkAllowance == allowance[User]

\* await provider.getBalance(address)
getBalance == native[User]

\* click on "Connect Wallet" (rendered while !isConnected): the handler waits
\* for connectMetaMask()
handleConnect ==
    /\ ~isConnected
    /\ BagCardinality(handlers) < MaxHandlers
    /\ handlers' = Start(Suspended("handleConnect", "connectMetaMask", "", "", ""))
    /\ shown' = Nothing
    /\ UNCHANGED <<contract, isConnected, walletAddress, balance, winjBalance,
                   vaultBalance, isTransferring, showApprovalModal, isApproving,
                   isApproved, txStatus, state, vaultAmount, activeTab, pending, native>>

\* connectMetaMask() returns the account: setBalance in connectMetaMask, then
\* setIsConnected(true), setWalletAddress(address), and the reads are awaited
connectMetaMask ==
    \E h \in Waiting("handleConnect", "connectMetaMask") :
        /\ balance' = getBalance
        /\ isConnected' = TRUE
        /\ walletAddress' = User
        /\ handlers' = Resume(h, "reads")
        /\ shown' = Nothing
        /\ UNCHANGED <<contract, winjBalance, vaultBalance, isTransferring,
                       showApprovalModal, isApproving, isApproved, txStatus, state,
                       vaultAmount, activeTab, pending, native>>

\* connectMetaMask() catches the wallet's refusal and returns undefined:
\* handleConnect does nothing more
connectMetaMaskRefused ==
    \E h \in Waiting("handleConnect", "connectMetaMask") :
        /\ handlers' = Finish(h)
        /\ shown' = Nothing
        /\ UNCHANGED <<contract, isConnected, walletAddress, balance, winjBalance,
                       vaultBalance, isTransferring, showApprovalModal, isApproving,
                       isApproved, txStatus, state, vaultAmount, activeTab, pending,
                       native>>

\* handleConnect has read the allowance and returns
Connected(read) ==
    [Nothing EXCEPT !.kind = "connected", !.via = "handleConnect", !.allowance = read]

\* a connect that opens the approval modal whatever the allowance
handleConnectReads_AlwaysModal ==
    \E h \in Waiting("handleConnect", "reads") :
        /\ winjBalance' = getWINJBalance
        /\ vaultBalance' = getVaultBalance
        /\ isApproved' = (checkAllowance > 0)
        /\ showApprovalModal' = TRUE
        /\ handlers' = Finish(h)
        /\ shown' = Connected(checkAllowance)
        /\ UNCHANGED <<contract, isConnected, walletAddress, balance, isTransferring,
                       isApproving, txStatus, state, vaultAmount, activeTab, pending,
                       native>>

\* getWINJBalance, getVaultBalance and checkAllowance have answered:
\* checkAllowance sets isApproved to allowance > 0, and handleConnect opens
\* the modal on allowance 0 and sets isApproved otherwise
handleConnectReads ==
    \E h \in Waiting("handleConnect", "reads") :
        /\ winjBalance' = getWINJBalance
        /\ vaultBalance' = getVaultBalance
        /\ isApproved' = (checkAllowance > 0)
        /\ showApprovalModal' = IF checkAllowance = 0 THEN TRUE ELSE showApprovalModal
        /\ handlers' = Finish(h)
        /\ shown' = Connected(checkAllowance)
        /\ UNCHANGED <<contract, isConnected, walletAddress, balance, isTransferring,
                       isApproving, txStatus, state, vaultAmount, activeTab, pending,
                       native>>

\* a disconnect that leaves the authorization flag as it is
handleDisconnect_KeepsApproval ==
    /\ isConnected
    /\ isConnected' = FALSE
    /\ walletAddress' = ""
    /\ balance' = 0
    /\ winjBalance' = 0
    /\ vaultBalance' = 0
    /\ shown' = Nothing
    /\ UNCHANGED <<contract, isTransferring, showApprovalModal, isApproving, isApproved,
                   txStatus, state, vaultAmount, activeTab, handlers, pending, native>>

\* click on the connected wallet (rendered while isConnected)
handleDisconnect ==
    /\ isConnected
    /\ isConnected' = FALSE
    /\ walletAddress' = ""
    /\ isApproved' = FALSE
    /\ balance' = 0
    /\ winjBalance' = 0
    /\ vaultBalance' = 0
    /\ shown' = Nothing
    /\ UNCHANGED <<contract, isTransferring, showApprovalModal, isApproving, txStatus,
                   state, vaultAmount, activeTab, handlers, pending, native>>

\* click on Approve in the modal: setIsApproving(true), and the handler waits
\* for winjContract.approve(VAULT_CONTRACT_ADDRESS, MaxUint256)
handleApprove ==
    /\ showApprovalModal
    /\ ~ApproveDisabled
    /\ BagCardinality(handlers) < MaxHandlers
    /\ isApproving' = TRUE
    /\ handlers' = Start(Suspended("handleApprove", "approve", "", "", ""))
    /\ shown' = Nothing
    /\ UNCHANGED <<contract, isConnected, walletAddress, balance, winjBalance,
                   vaultBalance, isTransferring, showApprovalModal, isApproved,
                   txStatus, state, vaultAmount, activeTab, pending, native>>

\* the wallet has sent the approval and approve(...) resolves with the
\* transaction, not yet in a block: setIsApproving(false),
\* setShowApprovalModal(false), setIsApproved(true)
approveSent ==
    \E h \in Waiting("handleApprove", "approve") :
        /\ Len(pending) < MaxPending
        /\ pending' = Append(pending, Tx("approve", Vault, ApprovalAmount))
        /\ isApproving' = FALSE
        /\ showApprovalModal' = FALSE
        /\ isApproved' = TRUE
        /\ handlers' = Finish(h)
        /\ shown' = Sent("handleApprove", ApprovalAmount)
        /\ UNCHANGED <<contract, isConnected, walletAddress, balance, winjBalance,
                       vaultBalance, isTransferring, txStatus, state, vaultAmount,
                       activeTab, native>>

\* a catch of handleApprove that closes the modal as well
approveRefused_ClosesModal ==
    \E h \in Waiting("handleApprove", "approve") :
        /\ isApproving' = FALSE
        /\ showApprovalModal' = FALSE
        /\ handlers' = Finish(h)
        /\ shown' = Alert("handleApprove", "error.message")
        /\ UNCHANGED <<contract, isConnected, walletAddress, balance, winjBalance,
                       vaultBalance, isTransferring, isApproved, txStatus, state,
                       vaultAmount, activeTab, pending, native>>

\* the user refuses in the wallet, or the send fails: catch,
\* setIsApproving(false) and an alert
approveRefused ==
    \E h \in Waiting("handleApprove", "approve") :
        /\ isApproving' = FALSE
        /\ handlers' = Finish(h)
        /\ shown' = Alert("handleApprove", "error.message")
        /\ UNCHANGED <<contract, isConnected, walletAddress, balance, winjBalance,
                       vaultBalance, isTransferring, showApprovalModal, isApproved,
                       txStatus, state, vaultAmount, activeTab, pending, native>>

\* deposit validated against the native balance
DepositSource_Native == balance

\* the balance handleDeposit compares the amount with: amount > winjBalance
DepositSource == winjBalance

\* the balance handleWithdraw compares the amount with: amount > vaultBalance
WithdrawSource == vaultBalance

\* the checks without the comparison with the balance
Validate_NoBalanceCheck(text, source, insufficient) ==
    IF text = "" THEN "Please enter an amount"
    ELSE IF isNaN(parseFloat(text)) \/ parseFloat(text).value <= 0
         THEN "Please enter a valid amount"
    ELSE ""

\* the checks at the head of handleDeposit and of handleWithdraw, in source
\* order; "" when the amount passes
Validate(text, source, insufficient) ==
    IF text = "" THEN "Please enter an amount"
    ELSE IF isNaN(parseFloat(text)) \/ parseFloat(text).value <= 0
         THEN "Please enter a valid amount"
    ELSE IF parseFloat(text).value > source THEN insufficient
    ELSE ""

\* the Deposit and Withdraw buttons and the amount field: disabled={buttonsDisabled}
VaultDisabled == buttonsDisabled

\* the amount field holds text and Deposit or Withdraw is clicked: the checks,
\* then the handler waits for vaultContract.deposit / withdraw(parseEther(vaultAmount))
VaultClick(handler, call, text, source, insufficient) ==
    /\ ~VaultDisabled
    /\ vaultAmount' = text
    /\ LET refusal == Validate(text, source, insufficient) IN
       IF refusal # ""
       THEN /\ shown' = Alert(handler, refusal)
            /\ UNCHANGED handlers
       ELSE /\ BagCardinality(handlers) < MaxHandlers
            /\ handlers' = Start(Suspended(handler, call, "", Vault, text))
            /\ shown' = Nothing
    /\ UNCHANGED <<contract, isConnected, walletAddress, balance, winjBalance,
                   vaultBalance, isTransferring, showApprovalModal, isApproving,
                   isApproved, txStatus, state, activeTab, pending, native>>

handleDeposit(text) ==
    VaultClick("handleDeposit", "deposit", text, DepositSource, "Insufficient wINJ balance")

handleWithdraw(text) ==
    VaultClick("handleWithdraw", "withdraw", text, WithdrawSource,
               "Insufficient wINJ balance in vault")

\* the wallet has sent the transaction and deposit(...) / withdraw(...) resolves
\* with it, not yet in a block; the reads of the balances are awaited
VaultSent(handler, call) ==
    \E h \in Waiting(handler, call) :
        /\ Len(pending) < MaxPending
        /\ pending' = Append(pending, Tx(call, Vault, parseEther(h.text)))
        /\ handlers' = Resume(h, "reads")
        /\ shown' = Sent(handler, parseEther(h.text))
        /\ UNCHANGED <<contract, isConnected, walletAddress, balance, winjBalance,
                       vaultBalance, isTransferring, showApprovalModal, isApproving,
                       isApproved, txStatus, state, vaultAmount, activeTab, native>>

depositSent == VaultSent("handleDeposit", "deposit")

withdrawSent == VaultSent("handleWithdraw", "withdraw")

\* a catch that leaves the call waiting for the wallet to send after all
VaultRefused_Retry(handler, call) ==
    \E h \in Waiting(handler, call) :
        /\ handlers' = handlers
        /\ shown' = Alert(handler, "error.message")
        /\ UNCHANGED <<contract, isConnected, walletAddress, balance, winjBalance,
                       vaultBalance, isTransferring, showApprovalModal, isApproving,
                       isApproved, txStatus, state, vaultAmount, activeTab, pending,
                       native>>

\* the user refuses in the wallet, or the send fails: catch and an alert
VaultRefused(handler, call) ==
    \E h \in Waiting(handler, call) :
        /\ handlers' = Finish(h)
        /\ shown' = Alert(handler, "error.message")
        /\ UNCHANGED <<contract, isConnected, walletAddress, balance, winjBalance,
                       vaultBalance, isTransferring, showApprovalModal, isApproving,
                       isApproved, txStatus, state, vaultAmount, activeTab, pending,
                       native>>

depositRefused == VaultRefused("handleDeposit", "deposit")

withdrawRefused == VaultRefused("handleWithdraw", "withdraw")

\* getWINJBalance(address) and getVaultBalance() have answered for the
\* wallet's account; setVaultAmount("")
VaultReads(handler) ==
    \E h \in Waiting(handler, "reads") :
        /\ winjBalance' = getWINJBalance
        /\ vaultBalance' = getVaultBalance
        /\ vaultAmount' = ""
        /\ handlers' = Finish(h)
        /\ shown' = Nothing
        /\ UNCHANGED <<contract, isConnected, walletAddress, balance, isTransferring,
                       showApprovalModal, isApproving, isApproved, txStatus, state,
                       activeTab, pending, native>>

depositReads == VaultReads("handleDeposit")

withdrawReads == VaultReads("handleWithdraw")

\* the balance handleTransfer compares the amount with, by the active tab
TransferSource(tab) == IF tab = "INJ" THEN balance ELSE winjBalance

\* the checks at the head of handleTransfer, in source order; "" when the
\* transfer passes
ValidateTransfer(to, text, tab) ==
    IF ~isConnected THEN "Please connect your wallet first"
    ELSE IF to = "" \/ text = "" THEN "Please enter both address and amount"
    ELSE IF isNaN(parseFloat(text)) \/ parseFloat(text).value <= 0
         THEN "Please enter a valid amount"
    ELSE IF parseFloat(text).value > TransferSource(tab)
         THEN IF tab = "INJ" THEN "Insufficient INJ balance"
              ELSE "Insufficient wINJ balance"
    ELSE ""

\* a Transfer button that stays enabled while a transfer is under way
TransferDisabled_NotInFlight(to, text) == buttonsDisabled \/ to = "" \/ text = ""

\* the Transfer button:
\* disabled={buttonsDisabled || isTransferring || !state.address || !state.amount}
TransferDisabled(to, text) == buttonsDisabled \/ isTransferring \/ to = "" \/ text = ""

\* the tab buttons and the fields of the transfer form: disabled={buttonsDisabled}
FormDisabled == buttonsDisabled

\* click on a tab: setActiveTab
setActiveTab(tab) ==
    /\ ~FormDisabled
    /\ activeTab # tab
    /\ activeTab' = tab
    /\ shown' = Nothing
    /\ UNCHANGED <<contract, isConnected, walletAddress, balance, winjBalance,
                   vaultBalance, isTransferring, showApprovalModal, isApproving,
                   isApproved, txStatus, state, vaultAmount, handlers, pending, native>>

\* the fields hold a recipient and an amount and Transfer is clicked (a
\* disabled button calls nothing): the checks, then setIsTransferring(true),
\* the pending status, and the handler waits for the wallet to send
handleTransfer(to, text) ==
    /\ ~FormDisabled
    /\ state' = [address |-> to, amount |-> text]
    /\ LET refusal == ValidateTransfer(to, text, activeTab) IN
       IF TransferDisabled(to, text)
       THEN /\ shown' = Nothing
            /\ UNCHANGED <<handlers, txStatus, isTransferring>>
       ELSE IF refusal # ""
       THEN /\ txStatus' = [type |-> "error", message |-> refusal]
            /\ shown' = [Nothing EXCEPT !.kind = "status", !.via = "handleTransfer",
                                        !.message = refusal]
            /\ UNCHANGED <<handlers, isTransferring>>
       ELSE /\ BagCardinality(handlers) < MaxHandlers
            /\ isTransferring' = TRUE
            /\ txStatus' = [type |-> "pending", message |-> "Transaction pending..."]
            /\ handlers' = Start(Suspended("handleTransfer", "send", activeTab, to, text))
            /\ shown' = Nothing
    /\ UNCHANGED <<contract, isConnected, walletAddress, balance, winjBalance,
                   vaultBalance, showApprovalModal, isApproving, isApproved,
                   vaultAmount, activeTab, pending, native>>

\* the wallet has sent the transfer (signer.sendTransaction on the INJ tab,
\* winjContract.transfer on the wINJ tab), not yet in a block: the success
\* status "Transaction sent!", and the read of the balance is awaited
transferSent ==
    \E h \in Waiting("handleTransfer", "send") :
        /\ Len(pending) < MaxPending
        /\ pending' = Append(pending, Tx(IF h.tab = "INJ" THEN "native" ELSE "transfer",
                                         h.to, parseEther(h.text)))
        /\ txStatus' = [type |-> "success", message |-> "Transaction sent!"]
        /\ handlers' = Resume(h, "reads")
        /\ shown' = Sent(IF h.tab = "INJ" THEN "handleTransfer INJ" ELSE "handleTransfer wINJ",
                         parseEther(h.text))
        /\ UNCHANGED <<contract, isConnected, walletAddress, balance, winjBalance,
                       vaultBalance, isTransferring, showApprovalModal, isApproving,
                       isApproved, state, vaultAmount, activeTab, native>>

\* a catch of handleTransfer with no finally after it
transferRefused_NoFinally ==
    \E h \in Waiting("handleTransfer", "send") :
        /\ txStatus' = [type |-> "error", message |-> "error.message"]
        /\ handlers' = Finish(h)
        /\ shown' = [Nothing EXCEPT !.kind = "status", !.via = "handleTransfer",
                                    !.message = "error.message"]
        /\ UNCHANGED <<contract, isConnected, walletAddress, balance, winjBalance,
                       vaultBalance, isTransferring, showApprovalModal, isApproving,
                       isApproved, state, vaultAmount, activeTab, pending, native>>

\* the user refuses in the wallet, or the send fails: catch sets the error
\* status, finally setIsTransferring(false)
transferRefused ==
    \E h \in Waiting("handleTransfer", "send") :
        /\ txStatus' = [type |-> "error", message |-> "error.message"]
        /\ isTransferring' = FALSE
        /\ handlers' = Finish(h)
        /\ shown' = [Nothing EXCEPT !.kind = "status", !.via = "handleTransfer",
                                    !.message = "error.message"]
        /\ UNCHANGED <<contract, isConnected, walletAddress, balance, winjBalance,
                       vaultBalance, showApprovalModal, isApproving, isApproved, state,
                       vaultAmount, activeTab, pending, native>>

\* the balance of the tab the transfer was made on has been read: setBalance
\* or setWinjBalance, the fields are cleared, finally setIsTransferring(false)
transferReads ==
    \E h \in Waiting("handleTransfer", "reads") :
        /\ IF h.tab = "INJ"
           THEN balance' = getBalance /\ UNCHANGED winjBalance
           ELSE winjBalance' = getWINJBalance /\ UNCHANGED balance
        /\ state' = [address |-> "", amount |-> ""]
        /\ isTransferring' = FALSE
        /\ handlers' = Finish(h)
        /\ shown' = Nothing
        /\ UNCHANGED <<contract, isConnected, walletAddress, vaultBalance,
                       showApprovalModal, isApproving, isApproved, txStatus,
                       vaultAmount, activeTab, pending, native>>

\* The wallet's account signs with increasing nonces, so its transactions
\* enter blocks in the order sent.  In a block a transaction runs to its end:
\* it takes effect in full or reverts and changes nothing.
Mined(kind) ==
    /\ pending # <<>>
    /\ Head(pending).kind = kind
    /\ pending' = Tail(pending)
    /\ shown' = Nothing
    /\ UNCHANGED <<log, stack, last, prev>>
    /\ UNCHANGED <<isConnected, walletAddress, balance, winjBalance, vaultBalance,
                   isTransferring, showApprovalModal, isApproving, isApproved, txStatus,
                   state, vaultAmount, activeTab, handlers>>

\* wINJ.approve(vault, amount) of the wallet's account
MineApprove ==
    /\ Mined("approve")
    /\ allowance' = [allowance EXCEPT ![User] = Head(pending).amount]
    /\ UNCHANGED <<balances, tok, netDeposited, native>>

\* SavingsVault.deposit(amount) of the wallet's account
MineDeposit ==
    /\ Mined("deposit")
    /\ LET amount == Head(pending).amount IN
       IF /\ require_amount(amount)
          /\ CanPull(User, amount)
          /\ credit(balances[User], amount) \in 0..MaxUint256
       THEN /\ tok' = [tok EXCEPT ![User] = @ - amount, ![Vault] = @ + amount]
            /\ allowance' = [allowance EXCEPT ![User] = SpendAllowance(@, amount)]
            /\ balances' = [balances EXCEPT ![User] = credit(@, amount)]
            /\ netDeposited' = [netDeposited EXCEPT ![User] = @ + amount]
       ELSE UNCHANGED <<balances, tok, allowance, netDeposited>>
    /\ UNCHANGED native

\* SavingsVault.withdraw(amount) of the wallet's account
MineWithdraw ==
    /\ Mined("withdraw")
    /\ LET amount == Head(pending).amount IN
       IF /\ require_amount(amount)
          /\ require_balance(balances[User], amount)
          /\ CanPush(amount)
       THEN /\ balances' = [balances EXCEPT ![User] = debit(@, amount)]
            /\ tok' = [tok EXCEPT ![Vault] = @ - amount, ![User] = @ + amount]
            /\ netDeposited' = [netDeposited EXCEPT ![User] = @ - amount]
       ELSE UNCHANGED <<balances, tok, netDeposited>>
    /\ UNCHANGED <<allowance, native>>

\* wINJ.transfer(to, amount) of the wallet's account
MineTransfer ==
    /\ Mined("transfer")
    /\ LET tx == Head(pending) IN
       IF tok[User] >= tx.amount /\ tx.to # User
       THEN tok' = [tok EXCEPT ![User] = @ - tx.amount, ![tx.to] = @ + tx.amount]
       ELSE UNCHANGED tok
    /\ UNCHANGED <<balances, allowance, netDeposited, native>>

\* a transfer of native INJ from the wallet's account
MineNative ==
    /\ Mined("native")
    /\ LET tx == Head(pending) IN
       IF native[User] >= tx.amount /\ tx.to # User
       THEN native' = [native EXCEPT ![User] = @ - tx.amount, ![tx.to] = @ + tx.amount]
       ELSE UNCHANGED native
    /\ UNCHANGED <<balances, tok, allowance, netDeposited>>

\* what every session goes through: connecting, disconnecting, approval
Session ==
    \/ handleConnect
    \/ connectMetaMask
    \/ connectMetaMaskRefused
    \/ handleConnectReads
    \/ handleDisconnect
    \/ handleApprove
    \/ approveSent
    \/ approveRefused
    \/ MineApprove

\* one user with one wallet at the vault form (Deposit, Withdraw), and the
\* chain taking what the wallet sends
NextVault ==
    \/ Session
    \/ \E text \in Typed : handleDeposit(text)
    \/ depositSent
    \/ depositRefused
    \/ depositReads
    \/ \E text \in Typed : handleWithdraw(text)
    \/ withdrawSent
    \/ withdrawRefused
    \/ withdrawReads
    \/ MineDeposit
    \/ MineWithdraw

SpecVault == Init /\ [][NextVault]_vars

\* one user with one wallet at the transfer form (INJ and wINJ tabs), and
\* the chain taking what the wallet sends
NextTransfer ==
    \/ Session
    \/ \E tab \in {"INJ", "wINJ"} : setActiveTab(tab)
    \/ \E to \in {"", Recipient}, text \in Typed : handleTransfer(to, text)
    \/ transferSent
    \/ transferRefused
    \/ transferReads
    \/ MineTransfer
    \/ MineNative

SpecTransfer == Init /\ [][NextTransfer]_vars

\* ------------------------------------------------------------ properties
\* the outcome kinds of the design, read off a completed call
InvalidAmount(r) == ~r.ok /\ r.err = "amount=0"

InsufficientBalance(r) == ~r.ok /\ r.err = "insufficient balance"

\* deposit failed at its pull: the asset returned false ("transferFrom failed")
\* or its revert passed through the require
PullTransferFailed(r) == ~r.ok /\ r.fn = "deposit" /\ r.failedAt = "transferFrom"

\* withdraw failed at its push: the asset returned false ("transfer failed")
\* or its revert passed through the require
PushTransferFailed(r) == ~r.ok /\ r.fn = "withdraw" /\ r.failedAt = "transfer"

\* a call has just completed, and last is its outcome
Completed == last.fn \in Functions

\* nothing tracked or held differs from what it was when the completed call was entered
Unchanged == View(Chain) = last.pre

TypeOK ==
    /\ balances \in [Accounts -> 0..MaxUint256]
    /\ tok \in [Holders -> 0..MaxUint256]
    /\ allowance \in [Accounts -> 0..MaxUint256]
    /\ Len(stack) <= 1 + MaxReentries

\* C1: in every state, inside or between calls and whether the calls succeed
\* or revert, every tracked balance is >= 0 and the tracked balances together
\* do not exceed the asset the vault holds.
C1_TrackedWithinCustody ==
    /\ \A a \in Accounts : balances[a] >= 0
    /\ SumOver(balances, Accounts) <= tok[Vault]

\* a withdraw has just succeeded while another account still has a balance
\* and the vault holds a donation on top of what it tracks
C1_Witness ==
    /\ stack = <<>>
    /\ last.fn = "withdraw"
    /\ last.ok
    /\ \E y \in Accounts \ {last.sender} : balances[y] > 0
    /\ SumOver(balances, Accounts) < tok[Vault]

\* C2: whenever the asset contract has control inside a withdraw, the
\* caller's tracked balance is already reduced by the amount, so that is what
\* a reentrant call sees; and no account ever has more pushed to it than was
\* pulled from it, reentrant calls included.
C2_DebitBeforePush ==
    /\ (stack # <<>> /\ Top.fn = "withdraw" /\ Top.nested = 0)
          => balances[Top.sender] = Top.snap.balances[Top.sender] - Top.amount
    /\ \A a \in Accounts : netDeposited[a] >= 0

\* during the push of a withdraw the same account called withdraw again for an
\* amount its balance covered before the outer call, and was refused
C2_Witness ==
    /\ Len(stack) = 1
    /\ stack[1].fn = "withdraw"
    /\ stack[1].phase = "moved"
    /\ last.depth = 2
    /\ last.fn = "withdraw"
    /\ last.sender = stack[1].sender
    /\ last.amount <= stack[1].snap.balances[stack[1].sender]
    /\ InsufficientBalance(last)

\* C3: a successful deposit(a) directly followed by a successful withdraw(a)
\* of the same account, neither with a reentrant call inside, leaves the
\* account's tracked balance and its wallet balance at their pre-deposit values.
C3_DepositWithdrawRoundTrip ==
    (/\ stack = <<>>
     /\ last.fn = "withdraw" /\ last.ok /\ last.nested = 0
     /\ prev.ok /\ prev.nested = 0)
    => /\ myBalance(last.sender) = prev.pre.balances[last.sender]
       /\ tok[last.sender] = prev.pre.tok[last.sender]

\* the round trip was made by an account that already had a balance
C3_Witness ==
    /\ stack = <<>>
    /\ last.fn = "withdraw" /\ last.ok /\ last.nested = 0
    /\ prev.ok /\ prev.nested = 0
    /\ prev.pre.balances[last.sender] > 0

\* C4: withdraw(a) with a above the caller's tracked balance fails with
\* InsufficientBalance and leaves tracked balances, custody and wallets as
\* they were.
C4_OverdrawRefused ==
    (last.fn = "withdraw" /\ last.amount > last.pre.balances[last.sender])
    => InsufficientBalance(last) /\ Unchanged

\* an account with a balance asked for more than it
C4_Witness ==
    /\ last.fn = "withdraw"
    /\ last.pre.balances[last.sender] > 0
    /\ last.amount > last.pre.balances[last.sender]

\* C5: deposit(a) and withdraw(a) with a <= 0 fail with InvalidAmount at
\* their first statement, before any balance check or external call, and
\* leave tracked balances and asset holdings as they were.
C5_ZeroAmountRefused ==
    (Completed /\ last.amount <= 0)
    => /\ InvalidAmount(last)
       /\ last.pc = 1
       /\ last.extCalls = 0
       /\ last.emitted = <<>>
       /\ Unchanged

\* deposit(0) was called by an account that could have been pulled from
C5_Witness ==
    /\ last.fn = "deposit"
    /\ last.amount = 0
    /\ last.pre.allowance[last.sender] > 0
    /\ last.pre.tok[last.sender] > 0

\* C6: while the asset contract has control inside a deposit the caller's
\* tracked balance is not yet credited; a deposit whose pull cannot go
\* through for want of wallet balance or allowance fails with
\* PullTransferFailed; and a deposit that failed at its pull leaves
\* everything as it was.
C6_PullBeforeCredit ==
    /\ (stack # <<>> /\ Top.fn = "deposit" /\ Top.nested = 0)
          => balances[Top.sender] = Top.snap.balances[Top.sender]
    /\ (/\ last.fn = "deposit" /\ last.amount > 0 /\ last.nested = 0
        /\ \/ last.pre.tok[last.sender] < last.amount
           \/ last.pre.allowance[last.sender] < last.amount)
          => PullTransferFailed(last)
    /\ PullTransferFailed(last) => Unchanged

\* a deposit failed at its pull for want of allowance although the wallet
\* held the amount
C6_Witness ==
    /\ PullTransferFailed(last)
    /\ last.pre.tok[last.sender] >= last.amount
    /\ last.pre.allowance[last.sender] < last.amount
    /\ ~last.fault

\* C7: a withdraw whose push fails (the asset returns false or reverts)
\* fails as a whole with PushTransferFailed, and the caller's tracked
\* balance is what it was before the call.
C7_FailedPushUndone ==
    /\ (last.fn = "withdraw" /\ last.fault) => PushTransferFailed(last)
    /\ PushTransferFailed(last)
          => myBalance(last.sender) = last.pre.balances[last.sender]

\* the asset returned false to a withdraw that had debited a balance
C7_Witness ==
    /\ PushTransferFailed(last)
    /\ last.err = "transfer failed"
    /\ last.pre.balances[last.sender] >= last.amount

\* C8: a call without reentrant calls inside changes the caller's tracked
\* balance by exactly +a (deposit) or -a (withdraw) and emits exactly its one
\* event when it succeeds; a failed call, whatever happened inside, changes
\* no balance and emits nothing.
C8_ExactOrNothing ==
    Completed =>
      IF last.ok
      THEN last.nested = 0 =>
             /\ myBalance(last.sender) =
                  IF last.fn = "deposit"
                  THEN last.pre.balances[last.sender] + last.amount
                  ELSE last.pre.balances[last.sender] - last.amount
             /\ last.emitted =
                  <<[name |-> IF last.fn = "deposit" THEN "Deposited" ELSE "Withdrawn",
                     user |-> last.sender, amount |-> last.amount]>>
      ELSE /\ balances = last.pre.balances
           /\ last.emitted = <<>>

\* a withdraw of part of a balance succeeded
C8_Witness ==
    /\ last.fn = "withdraw"
    /\ last.ok
    /\ last.nested = 0
    /\ myBalance(last.sender) > 0

\* C9: a withdraw of 0 < a <= the caller's tracked balance succeeds, from
\* any state and also when made from inside another call, unless the asset
\* contract's transfer fails for a reason of its own: the vault always
\* holds enough to pay it.
C9_WithdrawAvailable ==
    (/\ last.fn = "withdraw"
     /\ last.amount > 0
     /\ last.amount <= last.pre.balances[last.sender]
     /\ ~last.fault)
    => last.ok

\* an account withdrew its whole balance in the transaction right after its deposit
C9_Witness ==
    /\ stack = <<>>
    /\ last.fn = "withdraw"
    /\ last.ok
    /\ last.amount = last.pre.balances[last.sender]
    /\ prev.ok

\* C10: a step changes the tracked balance of an account only if it is a
\* step of a deposit or withdraw call made by that account, or the revert of
\* a call inside which that account made one; asset operations outside the
\* vault change no tracked balance.
C10_OnlyOwnCalls ==
    [][\A y \in Accounts :
         balances'[y] # balances[y] =>
           \/ /\ stack # <<>>
              /\ Len(stack') <= Len(stack)
              /\ y \in Top.callers
           \/ /\ Len(stack') > Len(stack)
              /\ y = stack'[Len(stack')].sender]_vars

\* a call made from inside another account's call succeeded while the other
\* account had a balance
C10_Witness ==
    /\ last.depth = 2
    /\ last.ok
    /\ stack # <<>>
    /\ Top.sender # last.sender
    /\ balances[Top.sender] > 0
\* C11: myBalance() returns the caller's tracked balance, never fails, and
\* leaves every tracked balance and every asset holding (and allowance) as
\* it was when the call was made.
C11_MyBalanceReadsOnly ==
    last.fn = "myBalance" =>
        /\ last.ok
        /\ last.returned = balances[last.sender]
        /\ Unchanged

\* myBalance was called by an account with a tracked balance that differs
\* from its asset holding, after a deposit
C11_Witness ==
    /\ last.fn = "myBalance"
    /\ last.returned > 0
    /\ last.returned # tok[last.sender]
    /\ last.returned # balances[CHOOSE a \in Accounts : a # last.sender]

\* both forms, used with entries that pass the checks: amount 1 in the vault
\* form, and a recipient and amount 1 on the INJ tab of the transfer form
NextForms ==
    \/ Session
    \/ handleDeposit("1")
    \/ depositSent
    \/ depositRefused
    \/ depositReads
    \/ handleWithdraw("1")
    \/ withdrawSent
    \/ withdrawRefused
    \/ withdrawReads
    \/ handleTransfer(Recipient, "1")
    \/ transferSent
    \/ transferRefused
    \/ transferReads
    \/ MineDeposit
    \/ MineWithdraw
    \/ MineNative

SpecForms == Init /\ [][NextForms]_vars

\* nothing of the client is outstanding: no handler suspended, nothing sent
\* that is not yet in a block
Quiet == handlers = EmptyBag /\ pending = <<>>

\* both forms with every entry, used by a user who starts an action only
\* when nothing is outstanding
NextInTurn ==
    \/ Quiet /\ handleConnect
    \/ Quiet /\ handleDisconnect
    \/ Quiet /\ handleApprove
    \/ Quiet /\ \E text \in Typed : handleDeposit(text)
    \/ Quiet /\ \E text \in Typed : handleWithdraw(text)
    \/ Quiet /\ \E tab \in {"INJ", "wINJ"} : setActiveTab(tab)
    \/ Quiet /\ \E to \in {"", Recipient}, text \in Typed : handleTransfer(to, text)
    \/ connectMetaMask
    \/ connectMetaMaskRefused
    \/ handleConnectReads
    \/ approveSent
    \/ approveRefused
    \/ depositSent
    \/ depositRefused
    \/ depositReads
    \/ withdrawSent
    \/ withdrawRefused
    \/ withdrawReads
    \/ transferSent
    \/ transferRefused
    \/ transferReads
    \/ MineApprove
    \/ MineDeposit
    \/ MineWithdraw
    \/ MineTransfer
    \/ MineNative

SpecInTurn == Init /\ [][NextInTurn]_vars

\* -------------------------------------------------- properties of the client
\* the calls of a handler that are suspended, and those among them that
\* wait for the wallet to send
Calls(handler) ==
    LET S == {h \in BagToSet(handlers) : h.handler = handler}
    IN  SumOver([h \in S |-> CopiesIn(h, handlers)], S)

CallsAt(handler, at) ==
    LET S == Waiting(handler, at)
    IN  SumOver([h \in S |-> CopiesIn(h, handlers)], S)

\* the transactions of a kind sent and not yet in a block
InFlight(kind) == Cardinality({i \in 1..Len(pending) : pending[i].kind = kind})

\* a click on Approve would call handleApprove
ApproveInvocable == showApprovalModal /\ ~ApproveDisabled

\* C12: while a call of handleApprove waits for the wallet, and right after
\* the wallet has sent its approval, the Approve button cannot call
\* handleApprove again; so at most one call is suspended at any time and two
\* clicks in immediate succession send at most one approve transaction.
C12_ApproveOnce ==
    /\ Calls("handleApprove") <= 1
    /\ Calls("handleApprove") = 1 => isApproving /\ ~ApproveInvocable
    /\ (shown.sent /\ shown.via = "handleApprove") => ~ApproveInvocable

\* the modal is open with a call of handleApprove waiting for the wallet:
\* the second click finds the button disabled
C12_Witness ==
    /\ showApprovalModal
    /\ isConnected
    /\ Calls("handleApprove") = 1
    /\ pending = <<>>

\* C13: while the allowance of the wallet's account for the vault is 0, a
\* deposit or wINJ transfer that is attempted is refused at the client: no
\* deposit and no wINJ transfer is sent at a moment the allowance is 0.
C13_UnauthorizedRefused ==
    (shown.sent /\ shown.via \in {"handleDeposit", "handleTransfer wINJ"})
        => shown.allowance > 0

\* C14 as stated: for a connected account whose allowance is 0, a valid
\* withdraw and a valid native transfer can be initiated, that is, the
\* controls of the vault form and of the transfer form are enabled.
C14_NeverGated ==
    (isConnected /\ checkAllowance = 0) => (~VaultDisabled /\ ~FormDisabled)

\* C14, amended: withdraw and native transfer are gated like deposit; a call
\* of handleWithdraw or of handleTransfer starts only while a wallet is
\* connected and isApproved is set, so a connected account with allowance 0
\* that has sent no approval can initiate neither.
C14_GatedByApproval ==
    [][(\/ Calls("handleWithdraw")' > Calls("handleWithdraw")
        \/ Calls("handleTransfer")' > Calls("handleTransfer"))
       => (isConnected /\ isApproved)]_vars

\* a withdraw and a native transfer have both been started and wait for the wallet
C14_Witness ==
    /\ CallsAt("handleWithdraw", "withdraw") = 1
    /\ CallsAt("handleTransfer", "send") = 1

\* C15: the client sets isApproved, closes the modal and enables Deposit only
\* once the approval is in a block, so isApproved implies a non-zero
\* allowance on the chain and no deposit is sent while the allowance is 0.
C15_ApprovedAfterConfirmed ==
    /\ isApproved => checkAllowance > 0
    /\ (shown.sent /\ shown.via = "handleDeposit") => shown.allowance > 0

\* C16: with the allowance the client approves (unlimited), a deposit of
\* 0 < a <= w by an account with wallet asset balance w and tracked balance l
\* that the asset carries out succeeds, leaves w - a in the wallet and l + a
\* tracked, and does not decrement the allowance, so the same holds for
\* every later deposit without a new approval.
C16_UnlimitedDeposit ==
    LET s == last.sender
        w == last.pre.tok[s]
        l == last.pre.balances[s]
        a == last.amount
    IN  (/\ last.fn = "deposit"
         /\ last.depth = 1
         /\ last.pre.allowance[s] = ApprovalAmount
         /\ 0 < a /\ a <= w
         /\ ~last.fault)
        => /\ last.ok
           /\ tok[s] = w - a
           /\ balances[s] = l + a
           /\ allowance[s] = last.pre.allowance[s]

\* a later deposit: the account had deposited before (l > 0) and deposits
\* again under the same unlimited allowance
C16_Witness ==
    /\ last.fn = "deposit"
    /\ last.ok
    /\ last.pre.allowance[last.sender] = ApprovalAmount
    /\ last.pre.balances[last.sender] > 0
    /\ balances[last.sender] = last.pre.balances[last.sender] + last.amount
    /\ allowance[last.sender] = ApprovalAmount

EntryFault(text, source) ==
    IF text = "" THEN "empty"
    ELSE IF text \notin DOMAIN Numeral THEN "not a number"
    ELSE IF Numeral[text] <= 0 THEN "not positive"
    ELSE IF Numeral[text] > source THEN "exceeds"
    ELSE "none"

\* the message names the fault
Names(message, fault) ==
    CASE fault = "empty" ->
           message \in {"Please enter an amount", "Please enter both address and amount"}
      [] fault \in {"not a number", "not positive"} ->
           message = "Please enter a valid amount"
      [] fault = "exceeds" ->
           message \in {"Insufficient wINJ balance", "Insufficient wINJ balance in vault",
                        "Insufficient INJ balance"}
      [] OTHER -> FALSE

\* this step started no call of a handler and sent nothing
NothingStarted == handlers' = handlers /\ pending' = pending

Positive == {text \in DOMAIN Numeral : Numeral[text] > 0}

\* this step started a call of the handler
Started(handler) == Calls(handler)' = Calls(handler) + 1

AtWallet(handler) ==
    CASE handler = "handleApprove" -> "approve"
      [] handler = "handleDeposit" -> "deposit"
      [] handler = "handleWithdraw" -> "withdraw"
      [] OTHER -> "send"

\* the kinds of transaction a handler sends
KindsOf(handler) ==
    CASE handler = "handleApprove" -> {"approve"}
      [] handler = "handleDeposit" -> {"deposit"}
      [] handler = "handleWithdraw" -> {"withdraw"}
      [] OTHER -> {"native", "transfer"}

\* the submissions of a handler that are outstanding: asked of the wallet, or
\* sent and not yet in a block
Outstanding(handler) ==
    CallsAt(handler, AtWallet(handler))
    + Cardinality({i \in 1..Len(pending) : pending[i].kind \in KindsOf(handler)})

\* C20: of each kind of action (transfer, deposit, withdraw, approval) at
\* most one submission is outstanding at any time; invoking the action again
\* while the earlier submission is outstanding sends no second transaction.
C20_OneInFlight ==
    \A handler \in {"handleApprove", "handleDeposit", "handleWithdraw", "handleTransfer"} :
        Outstanding(handler) <= 1


\* this step the reads a call of the handler awaited after sending have
\* answered, and the handler has set the balances from them
ReadsAnswered(handler) == CallsAt(handler, "reads")' < CallsAt(handler, "reads")

\* transactions of the handler that the wallet has sent and no block holds yet
Unconfirmed(handler) == {i \in 1..Len(pending) : pending[i].kind \in KindsOf(handler)}

\* C21: between the sending of a transaction and its confirmation the client
\* re-reads no balance and shows the pending status: the reads of a handler
\* answer only when no transaction of that handler is still unconfirmed, and
\* while a transfer is unconfirmed the status is the pending one.
C21_NoReadBeforeConfirmed ==
    [][/\ \A handler \in {"handleDeposit", "handleWithdraw", "handleTransfer"} :
            ReadsAnswered(handler) => Unconfirmed(handler) = {}
       /\ Unconfirmed("handleTransfer")' # {} => txStatus'.type = "pending"
      ]_vars


\* the three balances on display are those of the wallet's account on the chain
Synchronized ==
    /\ balance = getBalance
    /\ winjBalance = getWINJBalance
    /\ vaultBalance = getVaultBalance

\* C22: the confirmation of an action makes the client read again every
\* balance the action has changed (and clear the fields of the action); so
\* once every transaction sent is in a block and no handler is still at work,
\* a connected client displays the balances the chain holds.
C22_ConfirmedReread == (Quiet /\ isConnected) => Synchronized


\* the handlers of the five kinds of action (handleTransfer serves the native
\* and the wINJ transfer)
ActionHandlers == {"handleApprove", "handleDeposit", "handleWithdraw", "handleTransfer"}

\* this step a call of the handler ends: it returns after its last await or
\* from its catch, or the click is refused by the checks
Ended(handler) ==
    \/ Calls(handler)' < Calls(handler)
    \/ shown'.kind \in {"alert", "status"} /\ shown'.via = handler

\* C23: whenever an action of any of the five kinds ends, in success or in
\* failure, the transaction status on display is of type success or error
\* and carries a message.
C23_TerminalHasStatus ==
    [][\A handler \in ActionHandlers :
          Ended(handler) => /\ txStatus'.type \in {"success", "error"}
                            /\ txStatus'.message # ""]_vars


\* this step a call of the handler fails at the client: refused by the
\* checks, by the user in the wallet, or by the send
FailedAtClient(handler) == shown'.kind \in {"alert", "status"} /\ shown'.via = handler

\* this step a transfer the wallet has sent fails in its block and moves nothing
TransferFailedOnChain ==
    \/ MineNative /\ native' = native
    \/ MineTransfer /\ tok' = tok

\* C24: a transfer that fails leaves nothing on display that says funds have
\* moved.  When it fails at the client the status is the error and the three
\* balances on display are as before the step; when it fails in its block,
\* with nothing else outstanding, the status is the error and not success.
C24_FailedMovesNothing ==
    [][/\ FailedAtClient("handleTransfer") =>
            /\ txStatus'.type = "error"
            /\ <<balance, winjBalance, vaultBalance>>' = <<balance, winjBalance, vaultBalance>>
       /\ (TransferFailedOnChain /\ Quiet') => txStatus'.type = "error"
      ]_vars


\* this step the user invokes an action: a click on Approve, Deposit,
\* Withdraw or Transfer
UserInvokes ==
    \/ handleApprove
    \/ \E text \in Typed : handleDeposit(text) \/ handleWithdraw(text)
    \/ \E to \in {"", Recipient}, text \in Typed : handleTransfer(to, text)

\* the calls of the action handlers that have asked the wallet to send
AskedOfWallet ==
    SumOver([handler \in ActionHandlers |-> CallsAt(handler, AtWallet(handler))],
            ActionHandlers)

\* C25: nothing is retried.  A transaction is sent only for a call that
\* waits for the wallet, one transaction for one call, and the call waits no
\* longer; a call comes to wait for the wallet only by an invocation of the
\* user; and a call whose send is refused ends without sending, so after a
\* failure nothing is sent until the user invokes an action again.
C25_NoRetry ==
    [][/\ pending' # pending /\ Len(pending') >= Len(pending) =>
            /\ Len(pending') = Len(pending) + 1
            /\ AskedOfWallet' = AskedOfWallet - 1
       /\ AskedOfWallet' > AskedOfWallet =>
            /\ UserInvokes
            /\ AskedOfWallet' = AskedOfWallet + 1
       /\ \A handler \in ActionHandlers :
            FailedAtClient(handler) =>
                /\ pending' = pending
                /\ IF shown'.message = "error.message"
                   THEN /\ Calls(handler)' = Calls(handler) - 1
                        /\ AskedOfWallet' = AskedOfWallet - 1
                   ELSE handlers' = handlers
      ]_vars

\* the wallet has just refused a deposit: the call has ended and nothing is
\* outstanding, no call waits and no transaction is unconfirmed
C25_Witness ==
    /\ shown = Alert("handleDeposit", "error.message")
    /\ Quiet
    /\ isApproved
    /\ vaultAmount \in Positive


EmptyForm == [address |-> "", amount |-> ""]

\* C27: the amount field and the Deposit and Withdraw buttons of the vault
\* form and the controls of the transfer form are disabled exactly while no
\* wallet is connected or isApproved is not set; the Transfer button is
\* disabled besides while a transfer is under way or a field is empty.  So
\* nothing is typed and no call of handleDeposit, handleWithdraw or
\* handleTransfer starts unless the control used is enabled.
C27_ControlsGated ==
    [][/\ VaultDisabled <=> (~isConnected \/ ~isApproved)
       /\ FormDisabled <=> (~isConnected \/ ~isApproved)
       /\ \A to \in {"", Recipient}, text \in Typed :
            TransferDisabled(to, text) <=>
                (~isConnected \/ ~isApproved \/ isTransferring \/ to = "" \/ text = "")
       /\ (vaultAmount' # vaultAmount /\ vaultAmount' # "") => (isConnected /\ isApproved)
       /\ (Started("handleDeposit") \/ Started("handleWithdraw")) => (isConnected /\ isApproved)
       /\ (state' # state /\ state' # EmptyForm) => (isConnected /\ isApproved)
       /\ Started("handleTransfer") =>
            /\ isConnected /\ isApproved /\ ~isTransferring
            /\ state'.address # "" /\ state'.amount # ""
      ]_vars

\* connected and approved with a transfer under way: the Transfer button
\* is disabled, the vault form is enabled and a deposit has been started
C27_Witness ==
    /\ isConnected /\ isApproved
    /\ isTransferring
    /\ TransferDisabled(Recipient, "1")
    /\ ~VaultDisabled
    /\ Calls("handleDeposit") = 1
    /\ Calls("handleTransfer") = 1


\* this step the wallet accepts a transfer: it enters the transactions sent
TransferAccepted ==
    /\ Len(pending') = Len(pending) + 1
    /\ pending'[Len(pending')].kind \in KindsOf("handleTransfer")

\* C28: the status of a transfer goes from pending to success or error and
\* in no other way: when the wallet accepts the transaction the status is
\* the pending one, and the status becomes success only from pending and only
\* once the transaction is confirmed, that is, when no transfer sent is
\* still outside a block.
C28_SuccessAfterConfirmed ==
    [][/\ TransferAccepted => txStatus'.type = "pending"
       /\ (txStatus'.type = "success" /\ txStatus.type # "success") =>
            /\ txStatus.type = "pending"
            /\ Unconfirmed("handleTransfer")' = {}
      ]_vars


\* this step a connect, an approval, a deposit, a withdraw or a transfer
\* comes to its end at the client without a failure: the point at which the
\* handler has made the reads it makes
Completed_AtClient ==
    \/ shown'.kind = "connected"
    \/ \E handler \in ActionHandlers :
         /\ Calls(handler)' < Calls(handler)
         /\ ~FailedAtClient(handler)

\* C29: the balances are refreshed in full: when a connect, an approval or
\* an action has come to its end with the wallet connected, the native
\* balance, the wINJ balance of the wallet and the balance deposited in the
\* vault on display are all three the ones just read from the chain.
C29_FullRefresh == [][(Completed_AtClient /\ isConnected') => Synchronized']_vars


\* ---------------------------------------------- frontend/src/App.tsx
\* The App component as frontend/src/App.tsx has it: connectMetaMask and the
\* controls are the same, handleApprove is a timer that sends nothing,
\* Deposit and Withdraw send nothing, and handleTransfer sends native INJ and
\* awaits tx.wait() before it reports success.

\* the hash of the transaction a status refers to
TxHash == "tx.hash"

\* getWINJBalance and checkAllowance have answered (no balance of the vault
\* is read)
App_handleConnectReads ==
    \E h \in Waiting("handleConnect", "reads") :
        /\ winjBalance' = getWINJBalance
        /\ isApproved' = (checkAllowance > 0)
        /\ showApprovalModal' = IF checkAllowance = 0 THEN TRUE ELSE showApprovalModal
        /\ handlers' = Finish(h)
        /\ shown' = Connected(checkAllowance)
        /\ UNCHANGED <<contract, isConnected, walletAddress, balance, vaultBalance,
                       isTransferring, isApproving, txStatus, state, vaultAmount,
                       activeTab, pending, native>>

\* setIsConnected(false), setWalletAddress(""), setIsApproved(false)
App_handleDisconnect ==
    /\ isConnected
    /\ isConnected' = FALSE
    /\ walletAddress' = ""
    /\ isApproved' = FALSE
    /\ shown' = Nothing
    /\ UNCHANGED <<contract, balance, winjBalance, vaultBalance, isTransferring,
                   showApprovalModal, isApproving, txStatus, state, vaultAmount,
                   activeTab, handlers, pending, native>>

\* click on Approve in the modal: setIsApproving(true) and setTimeout(..., 2000)
App_handleApprove ==
    /\ showApprovalModal
    /\ ~ApproveDisabled
    /\ BagCardinality(handlers) < MaxHandlers
    /\ isApproving' = TRUE
    /\ handlers' = Start(Suspended("handleApprove", "setTimeout", "", "", ""))
    /\ shown' = Nothing
    /\ UNCHANGED <<contract, isConnected, walletAddress, balance, winjBalance,
                   vaultBalance, isTransferring, showApprovalModal, isApproved,
                   txStatus, state, vaultAmount, activeTab, pending, native>>

\* the timer fires: setIsApproving(false), setShowApprovalModal(false),
\* setIsApproved(true)
App_approveTimeout ==
    \E h \in Waiting("handleApprove", "setTimeout") :
        /\ isApproving' = FALSE
        /\ showApprovalModal' = FALSE
        /\ isApproved' = TRUE
        /\ handlers' = Finish(h)
        /\ shown' = Nothing
        /\ UNCHANGED <<contract, isConnected, walletAddress, balance, winjBalance,
                       vaultBalance, isTransferring, txStatus, state, vaultAmount,
                       activeTab, pending, native>>

\* the checks at the head of handleTransfer, in source order; "" when the
\* transfer passes
App_ValidateTransfer(to, text) ==
    IF ~isConnected THEN "Please connect your wallet first"
    ELSE IF to = "" \/ text = "" THEN "Please enter both address and amount"
    ELSE IF isNaN(parseFloat(text)) \/ parseFloat(text).value <= 0
         THEN "Please enter a valid amount"
    ELSE IF parseFloat(text).value > balance THEN "Insufficient balance"
    ELSE ""

\* the fields hold a recipient and an amount and Transfer is clicked: the
\* checks, then setIsTransferring(true), the pending status, and the handler
\* waits for signer.sendTransaction
App_handleTransfer(to, text) ==
    /\ ~FormDisabled
    /\ state' = [address |-> to, amount |-> text]
    /\ LET refusal == App_ValidateTransfer(to, text) IN
       IF TransferDisabled(to, text)
       THEN /\ shown' = Nothing
            /\ UNCHANGED <<handlers, txStatus, isTransferring>>
       ELSE IF refusal # ""
       THEN /\ txStatus' = [type |-> "error", message |-> refusal]
            /\ shown' = [Nothing EXCEPT !.kind = "status", !.via = "handleTransfer",
                                        !.message = refusal]
            /\ UNCHANGED <<handlers, isTransferring>>
       ELSE /\ BagCardinality(handlers) < MaxHandlers
            /\ isTransferring' = TRUE
            /\ txStatus' = [type |-> "pending", message |-> "Transaction pending..."]
            /\ handlers' = Start(Suspended("handleTransfer", "send", activeTab, to, text))
            /\ shown' = Nothing
    /\ UNCHANGED <<contract, isConnected, walletAddress, balance, winjBalance,
                   vaultBalance, showApprovalModal, isApproving, isApproved,
                   vaultAmount, activeTab, pending, native>>

\* a handler that reports success as soon as the wallet has sent and ends
App_transferSent_NoWait ==
    \E h \in Waiting("handleTransfer", "send") :
        /\ Len(pending) < MaxPending
        /\ pending' = Append(pending, Tx("native", h.to, parseEther(h.text)))
        /\ txStatus' = [type |-> "success", message |-> "Transaction confirmed!",
                        txHash |-> TxHash]
        /\ isTransferring' = FALSE
        /\ handlers' = Finish(h)
        /\ shown' = Sent("handleTransfer INJ", parseEther(h.text))
        /\ UNCHANGED <<contract, isConnected, walletAddress, balance, winjBalance,
                       vaultBalance, showApprovalModal, isApproving, isApproved, state,
                       vaultAmount, activeTab, native>>

\* the wallet has sent the transfer: the pending status with the hash, and
\* the handler awaits tx.wait()
App_transferSent ==
    \E h \in Waiting("handleTransfer", "send") :
        /\ Len(pending) < MaxPending
        /\ pending' = Append(pending, Tx("native", h.to, parseEther(h.text)))
        /\ txStatus' = [type |-> "pending", message |-> "Waiting for confirmation...",
                        txHash |-> TxHash]
        /\ handlers' = Resume(h, "tx.wait")
        /\ shown' = Sent("handleTransfer INJ", parseEther(h.text))
        /\ UNCHANGED <<contract, isConnected, walletAddress, balance, winjBalance,
                       vaultBalance, isTransferring, showApprovalModal, isApproving,
                       isApproved, state, vaultAmount, activeTab, native>>

\* the transfer enters a block, where it moves the amount or fails; the
\* receipt answers the tx.wait() of the call that sent it
App_MineNative ==
    /\ pending # <<>>
    /\ Head(pending).kind = "native"
    /\ pending' = Tail(pending)
    /\ LET tx == Head(pending)
           ok == native[User] >= tx.amount /\ tx.to # User
       IN  /\ native' = IF ok THEN [native EXCEPT ![User] = @ - tx.amount,
                                                  ![tx.to] = @ + tx.amount]
                        ELSE native
           /\ \E h \in Waiting("handleTransfer", "tx.wait") :
                handlers' = Resume(h, IF ok THEN "receipt" ELSE "failed")
    /\ shown' = Nothing
    /\ UNCHANGED <<contract, isConnected, walletAddress, balance, winjBalance,
                   vaultBalance, isTransferring, showApprovalModal, isApproving,
                   isApproved, txStatus, state, vaultAmount, activeTab>>

\* tx.wait() resolves with the receipt: the success status, and the native
\* balance is read
App_transferConfirmed ==
    \E h \in Waiting("handleTransfer", "receipt") :
        /\ txStatus' = [type |-> "success", message |-> "Transaction confirmed!",
                        txHash |-> TxHash]
        /\ handlers' = Resume(h, "reads")
        /\ shown' = Nothing
        /\ UNCHANGED <<contract, isConnected, walletAddress, balance, winjBalance,
                       vaultBalance, isTransferring, showApprovalModal, isApproving,
                       isApproved, state, vaultAmount, activeTab, pending, native>>

\* provider.getBalance has answered: setBalance, the fields are cleared,
\* finally setIsTransferring(false)
App_transferReads ==
    \E h \in Waiting("handleTransfer", "reads") :
        /\ balance' = getBalance
        /\ state' = EmptyForm
        /\ isTransferring' = FALSE
        /\ handlers' = Finish(h)
        /\ shown' = Nothing
        /\ UNCHANGED <<contract, isConnected, walletAddress, winjBalance, vaultBalance,
                       showApprovalModal, isApproving, isApproved, txStatus,
                       vaultAmount, activeTab, pending, native>>

\* the send is refused or tx.wait() throws: catch sets the error status,
\* finally setIsTransferring(false)
App_transferFailed ==
    \E h \in Waiting("handleTransfer", "send") \cup Waiting("handleTransfer", "failed") :
        /\ txStatus' = [type |-> "error", message |-> "error.message"]
        /\ isTransferring' = FALSE
        /\ handlers' = Finish(h)
        /\ shown' = [Nothing EXCEPT !.kind = "status", !.via = "handleTransfer",
                                    !.message = "error.message"]
        /\ UNCHANGED <<contract, isConnected, walletAddress, balance, winjBalance,
                       vaultBalance, showApprovalModal, isApproving, isApproved, state,
                       vaultAmount, activeTab, pending, native>>

\* the account spends native INJ in another session of its wallet
SpendElsewhere ==
    /\ native[User] > 0
    /\ native' = [native EXCEPT ![User] = @ - 1, ![Recipient] = @ + 1]
    /\ shown' = Nothing
    /\ UNCHANGED <<contract, isConnected, walletAddress, balance, winjBalance,
                   vaultBalance, isTransferring, showApprovalModal, isApproving,
                   isApproved, txStatus, state, vaultAmount, activeTab, handlers,
                   pending>>

NextApp ==
    \/ handleConnect
    \/ connectMetaMask
    \/ connectMetaMaskRefused
    \/ App_handleConnectReads
    \/ App_handleDisconnect
    \/ App_handleApprove
    \/ App_approveTimeout
    \/ \E to \in {"", Recipient}, text \in Typed : App_handleTransfer(to, text)
    \/ App_transferSent
    \/ App_MineNative
    \/ App_transferConfirmed
    \/ App_transferReads
    \/ App_transferFailed
    \/ SpendElsewhere

SpecApp == Init /\ [][NextApp]_vars

AllOutstanding ==
    SumOver([handler \in ActionHandlers |-> Outstanding(handler)], ActionHandlers)

\* C31: at most one action that moves assets or authorizes is outstanding at
\* a time: while a submission of any kind is asked of the wallet or sent and
\* in no block yet, the Deposit, Withdraw, Transfer and Approve controls are
\* all disabled, so no second submission is outstanding beside it.
C31_OneAtATime ==
    /\ AllOutstanding > 0 =>
          /\ VaultDisabled
          /\ \A to \in {"", Recipient}, text \in Typed : TransferDisabled(to, text)
          /\ ~ApproveInvocable
    /\ AllOutstanding <= 1


\* this step the user disconnects
Disconnects == isConnected /\ ~isConnected'

\* C32: no status of an earlier action or session stays on display: a
\* disconnect leaves the status of type null, and when a call of an action
\* handler starts the status is of type null or the pending status of that call.
C32_StatusReset ==
    [][/\ Disconnects => txStatus'.type = "null"
       /\ \A handler \in ActionHandlers :
            Started(handler) => txStatus'.type \in {"null", "pending"}
      ]_vars


\* the await at which a handler has a prompt of the wallet open
AtPrompt(handler) ==
    IF handler = "handleConnect" THEN "connectMetaMask" ELSE AtWallet(handler)

\* this step the prompt of a call is rejected (by the user, or for the
\* network or the provider): the call ends there and nothing is sent
Rejected(handler) ==
    /\ CallsAt(handler, AtPrompt(handler))' < CallsAt(handler, AtPrompt(handler))
    /\ Calls(handler)' < Calls(handler)
    /\ pending' = pending

\* C33: a rejected prompt ends the connect, approval, deposit, withdraw or
\* transfer it belongs to with a message shown to the user (an alert or the
\* error status), and leaves the connection, the authorization flag and the
\* balances on display as they were.
C33_RejectionShown ==
    [][\A handler \in ActionHandlers \cup {"handleConnect"} :
          Rejected(handler) =>
              /\ shown'.kind \in {"alert", "status"}
              /\ shown'.message # ""
              /\ UNCHANGED <<isConnected, isApproved, balance, winjBalance, vaultBalance>>
      ]_vars


\* this step a wallet becomes connected
Connects == ~isConnected /\ isConnected'

C35_FlagsFollowConnection ==
    /\ isApproved => isConnected
    /\ showApprovalModal => (isConnected /\ ~isApproved)


\* C36: while no wallet is connected nothing is written into the session: a
\* step that begins and ends with no wallet connected leaves the three
\* balances on display and the status as they are, also when it is the late
\* completion of a handler that was suspended when the user disconnected.
C36_NoLateWrites ==
    [][(~isConnected /\ ~isConnected') =>
          UNCHANGED <<balance, winjBalance, vaultBalance, txStatus>>]_vars


\* this step a call of handleApprove succeeds: the wallet has sent the approval
ApproveSucceeds == shown'.sent /\ shown'.via = "handleApprove"

NextTransferAnswered ==
    \/ Session
    \/ \E tab \in {"INJ", "wINJ"} : setActiveTab(tab)
    \/ handleTransfer(Recipient, "1")
    \/ transferSent
    \/ transferRefused
    \/ transferReads
    \/ MineTransfer
    \/ MineNative

\* the same with a wallet and a network that answer: what handleTransfer
\* awaits (the send, then the read of the balance) resolves or throws in the end
SpecTransferAnswered ==
    /\ Init /\ [][NextTransferAnswered]_vars
    /\ WF_vars(transferSent \/ transferRefused)
    /\ WF_vars(transferReads)

\* C38: isTransferring is set exactly while a call of handleTransfer is
\* between its checks and its end, and if the wallet and the network answer
\* it is unset again after every transfer, sent or failed, so that the
\* Transfer button responds again.
C38_FlagReturns ==
    /\ [](isTransferring <=> Calls("handleTransfer") = 1)
    /\ [](Calls("handleTransfer") <= 1)
    /\ (isTransferring ~> ~isTransferring)

\* a transfer has just failed at the wallet: the flag is unset and the
\* Transfer button responds to a filled form
C38_Witness ==
    /\ shown.kind = "status"
    /\ shown.message = "error.message"
    /\ txStatus.type = "error"
    /\ ~isTransferring
    /\ Calls("handleTransfer") = 0
    /\ isConnected /\ isApproved
    /\ ~TransferDisabled(Recipient, "1")

====
